---- MODULE Spec2Model ----
(***************************************************************************)
(* Model of the order-placement, order-listing and vendor operating-state  *)
(* services of satisfy-tech:                                               *)
(*   src/src/order/order.service.ts   OrderService                         *)
(*   src/unnamed/part_000             VendorService                        *)
(* Strings that the code inspects character by character (day names,       *)
(* search terms, searched fields) are sequences of one-character strings.  *)
(* An optional (possibly undefined) value is a sequence of length 0 or 1.  *)
(***************************************************************************)
EXTENDS Integers, Sequences, FiniteSets, TLC

VARIABLES
    vendors,   \* Vendor collection: vendor id -> vendor document
    orders,    \* Order collection, in insertion order
    now,       \* the clock read by new Date() and by mongoose timestamps
    pc,        \* position of the running OrderService.create call
    cr,        \* locals of the running OrderService.create call
    outcome,   \* what the last OrderService.create call returned or threw, once ended
    vret,      \* what the last VendorService call returned or threw
    vcall,     \* history: the last VendorService call and the collection before it
    result     \* what the last listing call returned, with its arguments

vars == <<vendors, orders, now, pc, cr, outcome, vret, vcall, result>>

None == <<>>
Some(x) == <<x>>

(***************************************************************************)
(* String.prototype.toLowerCase, trim, and the case-insensitive substring  *)
(* match of { $regex: term, $options: 'i' } for terms without regex        *)
(* metacharacters.                                                         *)
(***************************************************************************)
LowerMap ==
    ("A" :> "a") @@ ("B" :> "b") @@ ("E" :> "e") @@ ("F" :> "f") @@
    ("I" :> "i") @@ ("M" :> "m") @@ ("N" :> "n") @@ ("O" :> "o") @@
    ("R" :> "r") @@ ("S" :> "s") @@ ("T" :> "t") @@ ("U" :> "u")

LowerChar(c) == IF c \in DOMAIN LowerMap THEN LowerMap[c] ELSE c

toLowerCase(s) == [i \in 1..Len(s) |-> LowerChar(s[i])]

RECURSIVE TrimStart(_)
TrimStart(s) == IF s # <<>> /\ Head(s) = " " THEN TrimStart(Tail(s)) ELSE s

RECURSIVE TrimEnd(_)
TrimEnd(s) ==
    IF s # <<>> /\ s[Len(s)] = " " THEN TrimEnd(SubSeq(s, 1, Len(s) - 1)) ELSE s

trim(s) == TrimEnd(TrimStart(s))

\* { $regex: term, $options: 'i' } on a string field
RegexMatchI(field, term) ==
    \E i \in 0..(Len(field) - Len(term)) :
        toLowerCase(SubSeq(field, i + 1, i + Len(term))) = toLowerCase(term)

(***************************************************************************)
(* Vendor documents.                                                       *)
(***************************************************************************)
VendorIds == {"v1", "v2"}
NoVendorId == "vX"
VendorIdInputs == VendorIds \cup {NoVendorId}

Mon == <<"M", "o", "n">>
Tue == <<"T", "u", "e">>

InitVendors ==
    [v \in VendorIds |->
        [isStoreOpen |-> (v = "v1"),
         workingHours |->
            IF v = "v1"
            THEN << [day |-> Mon, openingTime |-> "08:00",
                     closingTime |-> "17:00", isActive |-> TRUE],
                    [day |-> Tue, openingTime |-> "08:00",
                     closingTime |-> "17:00", isActive |-> TRUE] >>
            ELSE << [day |-> Mon, openingTime |-> "08:00",
                     closingTime |-> "17:00", isActive |-> TRUE] >>,
         packSettings |-> [limit |-> 1, price |-> 100],
         restaurantName |-> "r0"]]

\* vendorModel.findById(id): the document, or null (None)
VendorFindById(id) == IF id \in DOMAIN vendors THEN Some(vendors[id]) ELSE None

\* vendorModel.findByIdAndUpdate(id, fields, {new: true}): the collection after
FindByIdAndUpdate(id, field, value) ==
    IF id \in DOMAIN vendors
    THEN [vendors EXCEPT ![id] = [vendors[id] EXCEPT ![field] = value]]
    ELSE vendors

SetStoreOpen(vendorId, open) ==
    /\ vendors' = FindByIdAndUpdate(vendorId, "isStoreOpen", open)
    /\ vret' = IF vendorId \in DOMAIN vendors THEN "ok" ELSE "NotFound"

\* a variant that rejects opening a store that is already open
openStoreRejectsOpen(vendorId) ==
    IF vendorId \in DOMAIN vendors /\ vendors[vendorId].isStoreOpen
    THEN vret' = "Conflict" /\ UNCHANGED vendors
    ELSE SetStoreOpen(vendorId, TRUE)

openStore(vendorId) == SetStoreOpen(vendorId, TRUE)

closeStore(vendorId) == SetStoreOpen(vendorId, FALSE)

PackSettingsInputs == {[limit |-> 2, price |-> 150]}

updatePackSettings(vendorId, packSettings) ==
    /\ vendors' = FindByIdAndUpdate(vendorId, "packSettings",
                      [limit |-> packSettings.limit, price |-> packSettings.price])
    /\ vret' = IF vendorId \in DOMAIN vendors THEN "ok" ELSE "NotFound"

\* hours.findIndex(h => h.day.toLowerCase() === update.day.toLowerCase()); 0 is -1
FindDayIndex(hours, day) ==
    LET hits == {i \in 1..Len(hours) : toLowerCase(hours[i].day) = toLowerCase(day)}
    IN IF hits = {} THEN 0 ELSE CHOOSE i \in hits : \A j \in hits : i <= j

\* the three conditional assignments to hours[index]
ApplyHoursUpdate(h, update) ==
    LET h1 == IF update.openingTime # None /\ update.openingTime[1] # ""
              THEN [h EXCEPT !.openingTime = update.openingTime[1]] ELSE h
        h2 == IF update.closingTime # None /\ update.closingTime[1] # ""
              THEN [h1 EXCEPT !.closingTime = update.closingTime[1]] ELSE h1
    IN IF update.isActive # None
       THEN [h2 EXCEPT !.isActive = update.isActive[1]] ELSE h2

DayInputs == {<<"m", "o", "n">>, <<"T", "U", "E">>, <<"F", "r", "i">>}

HoursUpdates ==
    [day : DayInputs,
     openingTime : {None, Some(""), Some("09:00")},
     closingTime : {None, Some("18:00")},
     isActive : {None, Some(FALSE)}]

\* a variant that appends an entry for a day it does not find
updateWorkingHoursAppends(vendorId, update) ==
    LET vendor == VendorFindById(vendorId) IN
    IF vendor = None
    THEN vret' = "NotFound" /\ UNCHANGED vendors
    ELSE LET hours == vendor[1].workingHours
             index == FindDayIndex(hours, update.day)
             fresh == [day |-> update.day, openingTime |-> "", closingTime |-> "",
                       isActive |-> FALSE]
         IN /\ vendors' = [vendors EXCEPT ![vendorId].workingHours =
                  IF index = 0
                  THEN Append(hours, ApplyHoursUpdate(fresh, update))
                  ELSE [hours EXCEPT ![index] = ApplyHoursUpdate(hours[index], update)]]
            /\ vret' = "ok"

updateWorkingHours(vendorId, update) ==
    LET vendor == VendorFindById(vendorId) IN
    IF vendor = None
    THEN vret' = "NotFound" /\ UNCHANGED vendors
    ELSE LET hours == vendor[1].workingHours
             index == FindDayIndex(hours, update.day)
         IN IF index = 0
            THEN vret' = "BadRequest" /\ UNCHANGED vendors
            ELSE /\ vendors' = [vendors EXCEPT ![vendorId].workingHours =
                        [hours EXCEPT ![index] = ApplyHoursUpdate(hours[index], update)]]
                 /\ vret' = "ok"

\* UpdateVendorProfileDto: the fields of the request, each optional
ProfileUpdates ==
    [restaurantName : {None, Some("r1")}, isStoreOpen : {None, Some(FALSE)}]

\* Object.assign(vendor, updateDto)
ObjectAssign(vendor, dto) ==
    LET a == IF dto.restaurantName # None
             THEN [vendor EXCEPT !.restaurantName = dto.restaurantName[1]] ELSE vendor
    IN IF dto.isStoreOpen # None
       THEN [a EXCEPT !.isStoreOpen = dto.isStoreOpen[1]] ELSE a

updateVendorProfile(vendorId, updateDto) ==
    LET vendor == VendorFindById(vendorId) IN
    IF vendor = None
    THEN vret' = "NotFound" /\ UNCHANGED vendors
    ELSE /\ vendors' = [vendors EXCEPT ![vendorId] = ObjectAssign(vendor[1], updateDto)]
         /\ vret' = "ok"

NoCall == [op |-> "none", vendorId |-> NoVendorId, hours |-> None, before |-> InitVendors]

Logged(op, vendorId, hours) ==
    vcall' = [op |-> op, vendorId |-> vendorId, hours |-> hours, before |-> vendors]

\* the calls made: every edit on vendor v1, one of each on an id that does not resolve
PackCalls == {<<v, p>> : v \in {"v1", NoVendorId}, p \in PackSettingsInputs}

HoursCalls ==
    {<<"v1", u>> : u \in HoursUpdates} \cup
    {<<NoVendorId, u>> : u \in {x \in HoursUpdates :
        x.day = <<"m", "o", "n">> /\ x.openingTime = None /\ x.closingTime = None
        /\ x.isActive = None}}

ProfileCalls ==
    {<<"v1", d>> : d \in ProfileUpdates} \cup
    {<<NoVendorId, d>> : d \in {x \in ProfileUpdates : x.isStoreOpen = None
                                                    /\ x.restaurantName # None}}

VendorFrame == UNCHANGED <<orders, now, pc, cr, outcome, result>>

OpenStoreCall ==
    \E v \in VendorIdInputs :
        openStore(v) /\ Logged("openStore", v, None) /\ VendorFrame

CloseStoreCall ==
    \E v \in VendorIdInputs :
        closeStore(v) /\ Logged("closeStore", v, None) /\ VendorFrame

UpdatePackSettingsCall ==
    \E c \in PackCalls :
        updatePackSettings(c[1], c[2]) /\ Logged("updatePackSettings", c[1], None)
        /\ VendorFrame

UpdateWorkingHoursCall ==
    \E c \in HoursCalls :
        updateWorkingHours(c[1], c[2]) /\ Logged("updateWorkingHours", c[1], Some(c[2]))
        /\ VendorFrame

UpdateVendorProfileCall ==
    \E c \in ProfileCalls :
        updateVendorProfile(c[1], c[2]) /\ Logged("updateVendorProfile", c[1], None)
        /\ VendorFrame

(***************************************************************************)
(* OrderService.create.  The customer directory and the menu catalog are   *)
(* read-only collaborators; each await of the handler is one step, so      *)
(* VendorService calls may run between any two of them.                    *)
(***************************************************************************)
MaxOrders == 1
MaxItems == 2

Customers == [c \in {"c1"} |-> [fullName |-> <<"A", "n", "n">>]]
NoCustomerId == "cX"

\* customerService.findById(id): the customer; None stands for its NotFound failure
CustomerFindById(id) == IF id \in DOMAIN Customers THEN Some(Customers[id]) ELSE None

Menu ==
    ("A" :> [name |-> "Jollof", price |-> 500, isEnabled |-> TRUE]) @@
    ("B" :> [name |-> "Suya", price |-> 300, isEnabled |-> TRUE]) @@
    ("D" :> [name |-> "Dodo", price |-> 200, isEnabled |-> FALSE])
NoMenuItemId == "Z"

\* menuService.findOne(id): the menu item, or null (None)
MenuFindOne(id) == IF id \in DOMAIN Menu THEN Some(Menu[id]) ELSE None

ItemInputs ==
    {[menuItemId |-> "A", quantity |-> 2], [menuItemId |-> "B", quantity |-> 1],
     [menuItemId |-> "D", quantity |-> 1], [menuItemId |-> NoMenuItemId, quantity |-> 1]}

ItemLists == UNION {[1..n -> ItemInputs] : n \in 1..MaxItems}

Phone07 == <<"0", "7">>

\* CreateOrderDto; deliveryType, location, address and notes are copied, never read
CreateOrderDtos ==
    [vendorId : {"v1", NoVendorId}, items : ItemLists, phoneNumber : {Phone07}]

IdleCreate == [userId |-> "", dto |-> None, customerName |-> <<>>, sawOpen |-> FALSE,
               idx |-> 0, totalAmount |-> 0, before |-> <<>>]

NoOutcome == [kind |-> "none", subject |-> "", userId |-> "", dto |-> None,
              sawOpen |-> FALSE, openAtSave |-> FALSE, before |-> <<>>]

\* the call ends: what it returned or threw, with the locals it ended with
Ends(kind, subject, locals) ==
    /\ outcome' = [kind |-> kind, subject |-> subject, userId |-> locals.userId,
                   dto |-> locals.dto, sawOpen |-> locals.sawOpen,
                   openAtSave |-> IF locals.dto[1].vendorId \in DOMAIN vendors
                                  THEN vendors[locals.dto[1].vendorId].isStoreOpen
                                  ELSE FALSE,
                   before |-> locals.before]
    /\ pc' = "idle"
    /\ cr' = IdleCreate

\* customAlphabet(alphabet, 12)(): one of the identifiers the generator may draw
NanoIds == {<<"1">>, <<"7">>}

\* new this.orderModel({...}) with the schema's defaults and timestamps
NewOrder(orderId, userId, dto, customerName, totalAmount, time) ==
    [orderId |-> <<"S", "T", "-">> \o orderId,
     customerId |-> userId,
     vendorId |-> dto.vendorId,
     customerName |-> customerName,
     phoneNumber |-> dto.phoneNumber,
     items |-> dto.items,
     totalAmount |-> totalAmount,
     status |-> "pending",
     isDeleted |-> FALSE,
     createdAt |-> time]

\* line 27: the call starts and resolves the customer
CreateCall(userId, dto) ==
    /\ pc = "idle"
    /\ Len(orders) < MaxOrders
    /\ LET customer == CustomerFindById(userId)
           locals == [IdleCreate EXCEPT !.userId = userId, !.dto = Some(dto),
                                        !.before = orders]
       IN IF customer = None
          THEN Ends("NotFound", "customer", locals)
          ELSE /\ pc' = "findVendor"
               /\ cr' = [locals EXCEPT !.customerName = customer[1].fullName]
               /\ outcome' = NoOutcome
    /\ UNCHANGED <<vendors, orders, now, vret, vcall, result>>

\* a variant without the store-open check
CreateFindVendorUnchecked ==
    /\ pc = "findVendor"
    /\ LET vendor == VendorFindById(cr.dto[1].vendorId)
       IN IF vendor = None
          THEN Ends("NotFound", "vendor", cr)
          ELSE /\ pc' = "items"
               /\ cr' = [cr EXCEPT !.sawOpen = vendor[1].isStoreOpen, !.idx = 1]
               /\ UNCHANGED outcome
    /\ UNCHANGED <<vendors, orders, now, vret, vcall, result>>

\* a variant that persists the order as soon as the store is seen open
CreateFindVendorPersists ==
    /\ pc = "findVendor"
    /\ LET vendor == VendorFindById(cr.dto[1].vendorId)
       IN IF vendor = None
          THEN Ends("NotFound", "vendor", cr) /\ UNCHANGED orders
          ELSE IF ~vendor[1].isStoreOpen
          THEN Ends("BadRequest", "store closed", cr) /\ UNCHANGED orders
          ELSE /\ pc' = "items"
               /\ cr' = [cr EXCEPT !.sawOpen = TRUE, !.idx = 1]
               /\ orders' = Append(orders, NewOrder(<<"1">>, cr.userId, cr.dto[1],
                                                    cr.customerName, 0, now))
               /\ UNCHANGED outcome
    /\ UNCHANGED <<vendors, now, vret, vcall, result>>

\* lines 29-35: resolve the vendor and check that its store is open
CreateFindVendor ==
    /\ pc = "findVendor"
    /\ LET vendor == VendorFindById(cr.dto[1].vendorId)
       IN IF vendor = None
          THEN Ends("NotFound", "vendor", cr)
          ELSE IF ~vendor[1].isStoreOpen
          THEN Ends("BadRequest", "store closed", cr)
          ELSE /\ pc' = IF Len(cr.dto[1].items) = 0 THEN "save" ELSE "items"
               /\ cr' = [cr EXCEPT !.sawOpen = TRUE, !.idx = 1]
               /\ UNCHANGED outcome
    /\ UNCHANGED <<vendors, orders, now, vret, vcall, result>>

\* a variant that adds the price without the quantity
CreateItemIgnoresQuantity ==
    /\ pc = "items"
    /\ LET item == cr.dto[1].items[cr.idx]
           menuItem == MenuFindOne(item.menuItemId)
       IN IF menuItem = None
          THEN Ends("NotFound", item.menuItemId, cr)
          ELSE IF ~menuItem[1].isEnabled
          THEN Ends("BadRequest", menuItem[1].name, cr)
          ELSE /\ cr' = [cr EXCEPT !.totalAmount = @ + menuItem[1].price,
                                   !.idx = @ + 1]
               /\ pc' = IF cr.idx = Len(cr.dto[1].items) THEN "save" ELSE "items"
               /\ UNCHANGED outcome
    /\ UNCHANGED <<vendors, orders, now, vret, vcall, result>>

\* lines 39-50: one iteration of the loop over the submitted items
CreateItem ==
    /\ pc = "items"
    /\ LET item == cr.dto[1].items[cr.idx]
           menuItem == MenuFindOne(item.menuItemId)
       IN IF menuItem = None
          THEN Ends("NotFound", item.menuItemId, cr)
          ELSE IF ~menuItem[1].isEnabled
          THEN Ends("BadRequest", menuItem[1].name, cr)
          ELSE /\ cr' = [cr EXCEPT !.totalAmount = @ + menuItem[1].price * item.quantity,
                                   !.idx = @ + 1]
               /\ pc' = IF cr.idx = Len(cr.dto[1].items) THEN "save" ELSE "items"
               /\ UNCHANGED outcome
    /\ UNCHANGED <<vendors, orders, now, vret, vcall, result>>

\* a variant that reads the vendor again before writing
CreateSaveRevalidates ==
    /\ pc = "save"
    /\ IF vendors[cr.dto[1].vendorId].isStoreOpen
       THEN \E id \in NanoIds :
              /\ orders' = Append(orders, NewOrder(id, cr.userId, cr.dto[1],
                                          cr.customerName, cr.totalAmount, now))
              /\ Ends("ok", "", cr)
       ELSE Ends("BadRequest", "store closed", cr) /\ UNCHANGED orders
    /\ UNCHANGED <<vendors, now, vret, vcall, result>>

\* lines 52-75: generate the identifier, build the order and save it
CreateSave ==
    /\ pc = "save"
    /\ \E id \in NanoIds :
          orders' = Append(orders, NewOrder(id, cr.userId, cr.dto[1],
                                            cr.customerName, cr.totalAmount, now))
    /\ Ends("ok", "", cr)
    /\ UNCHANGED <<vendors, now, vret, vcall, result>>

\* the calls made: every item list by the customer to the vendor that resolve, and
\* the one-item lists with a customer or vendor id that does not resolve
CreateCalls ==
    {c \in {"c1", NoCustomerId} \X CreateOrderDtos :
        (c[1] = "c1" /\ c[2].vendorId = "v1") \/ Len(c[2].items) = 1}

CreateOrder == \E c \in CreateCalls : CreateCall(c[1], c[2])

\* the vendor whose store is opened and closed while orders are placed
OpenStoreDuringCreate ==
    openStore("v1") /\ UNCHANGED <<orders, now, pc, cr, outcome, vcall, result>>

CloseStoreDuringCreate ==
    closeStore("v1") /\ UNCHANGED <<orders, now, pc, cr, outcome, vcall, result>>

NoResult == [mode |-> "none"]

Init ==
    /\ vendors = InitVendors
    /\ orders = <<>>
    /\ now = 0
    /\ pc = "idle"
    /\ cr = IdleCreate
    /\ outcome = NoOutcome
    /\ vret = "none"
    /\ vcall = NoCall
    /\ result = NoResult

NextCreate ==
    \/ CreateOrder
    \/ CreateFindVendor
    \/ CreateItem
    \/ CreateSave
    \/ OpenStoreDuringCreate
    \/ CloseStoreDuringCreate

SpecCreate == Init /\ [][NextCreate]_vars

(***************************************************************************)
(* Claims about OrderService.create, checked under SpecCreate.             *)
(***************************************************************************)
Failed == outcome.kind \in {"NotFound", "BadRequest"}

Offending(items) ==
    {i \in 1..Len(items) :
        items[i].menuItemId \notin DOMAIN Menu \/ ~Menu[items[i].menuItemId].isEnabled}

\* C1: the order collection changes only by the single insert of a call whose
\* every validation step passed: while a call is running and after a call failed
\* the collection is what it was when the call started; after a call succeeded it
\* is that collection with exactly one order appended, and the customer and the
\* vendor resolved, the store was seen open and every item resolved and enabled.
C1_InsertOnceAfterValidation ==
    /\ pc # "idle" => orders = cr.before
    /\ Failed => orders = outcome.before
    /\ outcome.kind = "ok" =>
          /\ Len(orders) = Len(outcome.before) + 1
          /\ SubSeq(orders, 1, Len(outcome.before)) = outcome.before
          /\ outcome.userId \in DOMAIN Customers
          /\ outcome.dto[1].vendorId \in DOMAIN vendors
          /\ outcome.sawOpen
          /\ Offending(outcome.dto[1].items) = {}

\* a call passed the customer, vendor and store checks and failed on its second item
C1_WitnessFailedLate ==
    /\ Failed
    /\ outcome.sawOpen
    /\ Len(outcome.dto[1].items) = 2
    /\ Offending(outcome.dto[1].items) = {2}
    /\ orders = outcome.before

\* a call succeeded
C1_WitnessInserted ==
    /\ outcome.kind = "ok"
    /\ Len(orders) = Len(outcome.before) + 1

\* the error the validation sequence of the specification yields
ExpectedError(userId, dto, storeOpen) ==
    IF userId \notin DOMAIN Customers THEN <<"NotFound", "customer">>
    ELSE IF dto.vendorId \notin DOMAIN vendors THEN <<"NotFound", "vendor">>
    ELSE IF ~storeOpen THEN <<"BadRequest", "store closed">>
    ELSE IF Offending(dto.items) = {} THEN <<"ok", "">>
    ELSE LET first == CHOOSE i \in Offending(dto.items) :
                          \A j \in Offending(dto.items) : i <= j
             id == dto.items[first].menuItemId
         IN IF id \notin DOMAIN Menu THEN <<"NotFound", id>>
            ELSE <<"BadRequest", Menu[id].name>>

\* C2: a call that ended reports the first failing check in the order customer
\* absent (NotFound), vendor absent (NotFound), store closed (InvalidState), then
\* the items in submission order, an absent item as NotFound naming its id and a
\* disabled one as InvalidState naming its display name; it succeeds only when no
\* check fails.
C2_FirstFailingCheck ==
    outcome.kind # "none" =>
        <<outcome.kind, outcome.subject>> =
            ExpectedError(outcome.userId, outcome.dto[1], outcome.sawOpen)

\* a closed store was rejected as such although a submitted item is absent
C2_WitnessClosedBeforeItems ==
    /\ outcome.kind = "BadRequest"
    /\ outcome.subject = "store closed"
    /\ \E i \in 1..Len(outcome.dto[1].items) :
          outcome.dto[1].items[i].menuItemId = NoMenuItemId

\* of two offending items the earlier, a disabled one, was reported by its name
C2_WitnessEarliestItem ==
    /\ outcome.kind = "BadRequest"
    /\ outcome.subject = "Dodo"
    /\ Offending(outcome.dto[1].items) = {1, 2}
    /\ outcome.dto[1].items[2].menuItemId = NoMenuItemId

RECURSIVE SumOfItems(_)
SumOfItems(items) ==
    IF items = <<>> THEN 0
    ELSE Menu[Head(items).menuItemId].price * Head(items).quantity
         + SumOfItems(Tail(items))

\* C3: the order a successful call persisted carries the submitted items, status
\* pending and a totalAmount equal to the sum over the submitted items, repeats
\* counted, of the menu price times the quantity; A (500) x2 with B (300) x1
\* gives 1300.
C3_TotalAmount ==
    outcome.kind = "ok" =>
        LET saved == orders[Len(orders)]
            items == outcome.dto[1].items
        IN /\ saved.items = items
           /\ saved.status = "pending"
           /\ saved.vendorId = outcome.dto[1].vendorId
           /\ saved.customerId = outcome.userId
           /\ saved.totalAmount = SumOfItems(items)
           /\ items = << [menuItemId |-> "A", quantity |-> 2],
                         [menuItemId |-> "B", quantity |-> 1] >>
                 => saved.totalAmount = 1300

\* the order of A x2 and B x1 was persisted with total 1300
C3_Witness1300 ==
    /\ outcome.kind = "ok"
    /\ outcome.dto[1].items = << [menuItemId |-> "A", quantity |-> 2],
                                 [menuItemId |-> "B", quantity |-> 1] >>
    /\ orders[Len(orders)].totalAmount = 1300

\* C10: the save step of create does not read the vendor again: whenever a call
\* that passed validation takes its save step it succeeds and appends its order,
\* whether the store is open or closed at that moment, and leaves the vendor as it
\* is; so an order can be inserted while the store is closed.
C10_NoRevalidationAtWrite ==
    [][pc = "save" /\ pc' # "save" =>
          /\ outcome'.kind = "ok"
          /\ Len(orders') = Len(orders) + 1
          /\ orders'[Len(orders')].vendorId = cr.dto[1].vendorId
          /\ vendors' = vendors]_vars

\* closeStore ran between the store-open check and the insert: the call saw the
\* store open, and the order was inserted while the store was closed
C10_WitnessInsertedWhileClosed ==
    /\ outcome.kind = "ok"
    /\ outcome.sawOpen
    /\ ~outcome.openAtSave
    /\ ~vendors[outcome.dto[1].vendorId].isStoreOpen
    /\ Len(orders) = Len(outcome.before) + 1

(***************************************************************************)
(* OrderService.findAllVendorOrders and getTodaysVendorOrders.  A listing  *)
(* only reads the order collection and the clock.                          *)
(***************************************************************************)
MaxDocs == 2

Times == 0..2

\* the clock ticks of one local day: setHours(0,0,0,0) to setHours(23,59,59,999)
DayLength == 2

\* Number(x) || d, for an integer x: 0 is the one falsy integer
NumberOr(x, d) == IF x = 0 THEN d ELSE x

Max(a, b) == IF a >= b THEN a ELSE b
Min(a, b) == IF a <= b THEN a ELSE b

ParsePage(page) == Max(1, NumberOr(page, 1))

ParseLimit(limit) == Min(Max(1, NumberOr(limit, 10)), 100)

\* a variant that skips one page too many
SkipOfNextPage(parsedPage, parsedLimit) == parsedPage * parsedLimit

Skip(parsedPage, parsedLimit) == (parsedPage - 1) * parsedLimit

\* Math.ceil(total / parsedLimit)
TotalPages(total, parsedLimit) == (total + parsedLimit - 1) \div parsedLimit

\* the FilterQuery both listings build
BuildQuery(vendorId, range, search) ==
    [vendorId |-> vendorId,
     isDeletedNe |-> TRUE,
     createdAt |-> range,
     or |-> IF search # None /\ trim(search[1]) # <<>>
            THEN Some(trim(search[1])) ELSE None]

\* a variant in which the $or of the search replaces the scoping conditions
MatchesSearchFirst(q, doc) ==
    IF q.or # None
    THEN \/ RegexMatchI(doc.customerName, q.or[1])
         \/ RegexMatchI(doc.phoneNumber, q.or[1])
         \/ RegexMatchI(doc.orderId, q.or[1])
    ELSE /\ doc.vendorId = q.vendorId
         /\ doc.isDeleted # q.isDeletedNe
         /\ q.createdAt # None =>
               doc.createdAt >= q.createdAt[1].gte /\ doc.createdAt <= q.createdAt[1].lte

\* whether a document satisfies the query
Matches(q, doc) ==
    /\ doc.vendorId = q.vendorId
    /\ doc.isDeleted # q.isDeletedNe
    /\ q.createdAt # None =>
          doc.createdAt >= q.createdAt[1].gte /\ doc.createdAt <= q.createdAt[1].lte
    /\ q.or # None =>
          \/ RegexMatchI(doc.customerName, q.or[1])
          \/ RegexMatchI(doc.phoneNumber, q.or[1])
          \/ RegexMatchI(doc.orderId, q.or[1])

Matching(q) == {i \in DOMAIN orders : Matches(q, orders[i])}

\* find(query).sort({createdAt: -1}): every order the sort may return, equal
\* createdAt in any order
SortedDesc(q) ==
    LET m == Matching(q)
        n == Cardinality(m)
    IN {f \in [1..n -> m] :
          /\ \A i, j \in 1..n : i # j => f[i] # f[j]
          /\ \A i \in 1..n, j \in 1..n :
                i < j => orders[f[i]].createdAt >= orders[f[j]].createdAt}

\* .skip(skip).limit(parsedLimit)
Paginate(sorted, skip, parsedLimit) ==
    SubSeq(sorted, skip + 1, Min(skip + parsedLimit, Len(sorted)))

\* a variant that counts the vendor's orders whatever the search and the dates
CountDocumentsOfVendor(q) ==
    Cardinality(Matching([q EXCEPT !.or = None, !.createdAt = None]))

\* orderModel.countDocuments(query)
CountDocuments(q) == Cardinality(Matching(q))

\* what a listing with this query, page and limit may return
Listings(q, page, limit) ==
    LET parsedPage == ParsePage(page)
        parsedLimit == ParseLimit(limit)
        skip == Skip(parsedPage, parsedLimit)
        total == CountDocuments(q)
    IN {[orders |-> [k \in DOMAIN Paginate(f, skip, parsedLimit) |->
                        orders[Paginate(f, skip, parsedLimit)[k]]],
         total |-> total,
         page |-> parsedPage,
         limit |-> parsedLimit,
         totalPages |-> TotalPages(total, parsedLimit)] : f \in SortedDesc(q)}

AllOrdersQuery(vendorId, startDate, endDate, search) ==
    BuildQuery(vendorId,
               IF startDate # None /\ endDate # None
               THEN Some([gte |-> startDate[1], lte |-> endDate[1]]) ELSE None,
               search)

TodayStart == (now \div DayLength) * DayLength
TodayEnd == TodayStart + DayLength - 1

TodaysQuery(vendorId, search) ==
    BuildQuery(vendorId, Some([gte |-> TodayStart, lte |-> TodayEnd]), search)

PageInputs == {-5, 0, 1, 2}
LimitInputs == {0, 1, 2, 100, 1000}
SearchInputs == {None, Some(<<" ", "a", "N">>), Some(<<"8">>), Some(<<"t", "-", "1">>)}
RangeInputs == {<<None, None>>, <<Some(1), None>>, <<Some(1), Some(2)>>}

\* the page and limit pairs requested: the pages of the small limits, and each
\* out-of-range value beside an in-range one
PagingInputs ==
    {pl \in PageInputs \X LimitInputs :
        \/ pl[1] \in {1, 2} /\ pl[2] \in {1, 2}
        \/ pl[1] \in {-5, 0} /\ pl[2] = 1
        \/ pl[1] = 1 /\ pl[2] \in {0, 100, 1000}}

\* the vendor that lists its orders; the collection holds orders of both vendors
ListingVendor == "v1"

Answered(mode, vendorId, page, limit, startDate, endDate, search, out) ==
    result' = [mode |-> mode, vendorId |-> vendorId, pageArg |-> page,
               limitArg |-> limit, startDate |-> startDate, endDate |-> endDate,
               search |-> search, at |-> now, out |-> out]

findAllVendorOrders(vendorId, page, limit, startDate, endDate, search) ==
    /\ \E out \in Listings(AllOrdersQuery(vendorId, startDate, endDate, search),
                           page, limit) :
          Answered("all", vendorId, page, limit, startDate, endDate, search, out)
    /\ UNCHANGED <<vendors, orders, now, pc, cr, outcome, vret, vcall>>

getTodaysVendorOrders(vendorId, page, limit, search) ==
    /\ \E out \in Listings(TodaysQuery(vendorId, search), page, limit) :
          Answered("today", vendorId, page, limit, None, None, search, out)
    /\ UNCHANGED <<vendors, orders, now, pc, cr, outcome, vret, vcall>>

\* one listing per run: a listing reads the collection and the clock, which no
\* step of SpecQuery changes, so a second listing reaches nothing the first cannot
FindAllVendorOrdersCall ==
    /\ result = NoResult
    /\ \E pl \in PagingInputs, range \in RangeInputs, search \in SearchInputs :
          findAllVendorOrders(ListingVendor, pl[1], pl[2], range[1], range[2], search)

GetTodaysVendorOrdersCall ==
    /\ result = NoResult
    /\ \E pl \in PagingInputs, search \in SearchInputs :
          getTodaysVendorOrders(ListingVendor, pl[1], pl[2], search)

\* the orders the collection may hold: placed by either customer with either
\* vendor at any time, soft-deleted or not
Ann == <<"A", "n", "n">>
Bo == <<"B", "o">>
Placers ==
    {[userId |-> "c1", name |-> Ann, phone |-> <<"0", "7">>, id |-> <<"1">>],
     [userId |-> "c2", name |-> Bo, phone |-> <<"0", "8">>, id |-> <<"7">>]}

StoredOrders ==
    {[NewOrder(c.id, c.userId,
               [vendorId |-> v, phoneNumber |-> c.phone,
                items |-> << [menuItemId |-> "A", quantity |-> 1] >>],
               c.name, 500, t) EXCEPT !.isDeleted = d] :
        c \in Placers, v \in VendorIds, t \in Times, d \in BOOLEAN}

Collections ==
    {c \in UNION {[1..n -> StoredOrders] : n \in 0..MaxDocs} :
        \A i \in 1..Len(c) : \A j \in 1..Len(c) :
            i < j => c[i].createdAt <= c[j].createdAt}

InitQuery ==
    /\ vendors = InitVendors
    /\ orders \in Collections
    /\ now \in {t \in Times : \A i \in DOMAIN orders : orders[i].createdAt <= t}
    /\ pc = "idle"
    /\ cr = IdleCreate
    /\ outcome = NoOutcome
    /\ vret = "none"
    /\ vcall = NoCall
    /\ result = NoResult

NextQuery ==
    \/ FindAllVendorOrdersCall
    \/ GetTodaysVendorOrdersCall

SpecQuery == InitQuery /\ [][NextQuery]_vars

(***************************************************************************)
(* Claims about the two listings, checked under SpecQuery.                 *)
(***************************************************************************)
Listed == result.mode # "none"

\* the query of the listing that was answered
AnsweredQuery ==
    IF result.mode = "all"
    THEN AllOrdersQuery(result.vendorId, result.startDate, result.endDate, result.search)
    ELSE TodaysQuery(result.vendorId, result.search)

\* C4: in both listings page=0 and page=-5 return what page=1 returns, limit=1000
\* what limit=100 returns and limit=0 what limit=1 returns; the effective limit is
\* within 1..100 and the effective page is at least 1.
C4_PaginationClamps ==
    Listed =>
        /\ result.out.limit \in 1..100
        /\ result.out.page >= 1
        /\ result.pageArg \in {0, -5} =>
              result.out \in Listings(AnsweredQuery, 1, result.limitArg)
        /\ result.limitArg = 1000 =>
              result.out \in Listings(AnsweredQuery, result.pageArg, 100)
        /\ result.limitArg = 0 =>
              result.out \in Listings(AnsweredQuery, result.pageArg, 1)

\* C4, as the code has it: the same, except that limit=0 returns what the default
\* limit=10 returns.
C4_ClampsWithZeroLimitAsDefault ==
    Listed =>
        /\ result.out.limit \in 1..100
        /\ result.out.page >= 1
        /\ result.pageArg \in {0, -5} =>
              result.out \in Listings(AnsweredQuery, 1, result.limitArg)
        /\ result.limitArg = 1000 =>
              result.out \in Listings(AnsweredQuery, result.pageArg, 100)
        /\ result.limitArg = 0 =>
              result.out \in Listings(AnsweredQuery, result.pageArg, 10)

\* the filter of the listing that was answered, stated on an order
OwnAndKept(doc) == doc.vendorId = result.vendorId /\ doc.isDeleted # TRUE

InDates(doc) ==
    IF result.mode = "today"
    THEN doc.createdAt \div DayLength = result.at \div DayLength
    ELSE (result.startDate # None /\ result.endDate # None) =>
            (result.startDate[1] <= doc.createdAt /\ doc.createdAt <= result.endDate[1])

Occurs(term, field) ==
    \E pre, post \in 0..Len(field) :
        /\ pre + Len(term) + post = Len(field)
        /\ \A k \in 1..Len(term) : LowerChar(field[pre + k]) = LowerChar(term[k])

Searched(doc) ==
    (result.search # None /\ trim(result.search[1]) # <<>>) =>
        LET term == trim(result.search[1])
        IN \/ Occurs(term, doc.customerName)
           \/ Occurs(term, doc.phoneNumber)
           \/ Occurs(term, doc.orderId)

Filtered == {i \in DOMAIN orders :
                OwnAndKept(orders[i]) /\ InDates(orders[i]) /\ Searched(orders[i])}

\* C5: every order a listing returns is of the listing vendor and not soft-deleted,
\* whatever the search term, dates, page and limit; the orders returned and the
\* total counted lie within the vendor's kept orders of the date range, so a search
\* term only narrows the listing.
C5_ScopedAndNotDeleted ==
    Listed =>
        LET own == {i \in DOMAIN orders : OwnAndKept(orders[i]) /\ InDates(orders[i])}
        IN /\ \A k \in DOMAIN result.out.orders :
                /\ result.out.orders[k].vendorId = result.vendorId
                /\ result.out.orders[k].isDeleted # TRUE
                /\ \E i \in own : orders[i] = result.out.orders[k]
           /\ result.out.total <= Cardinality(own)
           /\ Len(result.out.orders) <= Cardinality(own)
           /\ result.out.total <=
                 CountDocuments([AnsweredQuery EXCEPT !.or = None])

\* a search returned an order while an order of another vendor, or a soft-deleted
\* one, carries the searched term
C5_WitnessSearchStaysInScope ==
    /\ Listed
    /\ result.search # None
    /\ result.out.orders # <<>>
    /\ \E i \in DOMAIN orders :
          /\ ~OwnAndKept(orders[i])
          /\ Searched(orders[i])

\* C6: the total of a listing is the number of the vendor's not-deleted orders that
\* match its dates and search term, whatever the page and the limit, and the page
\* returned is drawn from those same orders: as many of them as the page holds.
C6_TotalCountsTheFilter ==
    Listed =>
        /\ result.out.total = Cardinality(Filtered)
        /\ \A k \in DOMAIN result.out.orders :
              \E i \in Filtered : orders[i] = result.out.orders[k]
        /\ Len(result.out.orders) =
              Min(result.out.limit,
                  Max(0, Cardinality(Filtered)
                         - (result.out.page - 1) * result.out.limit))

\* a search matched one of the vendor's two kept orders and page 2 was requested:
\* the page is empty and the total is still 1
C6_WitnessTotalBeyondPage ==
    /\ Listed
    /\ result.search # None
    /\ result.pageArg = 2
    /\ result.out.orders = <<>>
    /\ result.out.total = 1
    /\ Cardinality({i \in DOMAIN orders : OwnAndKept(orders[i])}) = 2

DistinctTimes(set) ==
    \A i, j \in set : i # j => orders[i].createdAt # orders[j].createdAt

\* rank of an order among the filtered ones by descending createdAt
Rank(doc) == 1 + Cardinality({i \in Filtered : orders[i].createdAt > doc.createdAt})

\* C7: when the N filtered orders have distinct createdAt, a listing with effective
\* page p and limit l returns exactly those ranked (p-1)*l+1 to min(p*l, N) by
\* strictly descending createdAt (none when (p-1)*l >= N), never more than l, with
\* total N and totalPages = ceil(N / l); 25 orders, page 2, limit 10 give ranks
\* 11 to 20 and 3 pages.
C7_PageOfRanks ==
    /\ (Listed /\ DistinctTimes(Filtered)) =>
          LET N == Cardinality(Filtered)
              p == result.out.page
              l == result.out.limit
              got == result.out.orders
          IN /\ Len(got) = Max(0, Min(p * l, N) - (p - 1) * l)
             /\ Len(got) <= l
             /\ \A k \in DOMAIN got :
                   /\ \E i \in Filtered : orders[i] = got[k]
                   /\ Rank(got[k]) = (p - 1) * l + k
             /\ \A k \in DOMAIN got : \A m \in DOMAIN got :
                   k < m => got[k].createdAt > got[m].createdAt
             /\ result.out.total = N
             /\ result.out.totalPages * l >= N
             /\ (result.out.totalPages - 1) * l < N
    /\ Paginate([i \in 1..25 |-> i], Skip(ParsePage(2), ParseLimit(10)), ParseLimit(10))
          = [k \in 1..10 |-> 10 + k]
    /\ TotalPages(25, ParseLimit(10)) = 3

\* page 2 with limit 1 returned the older of two filtered orders
C7_WitnessSecondPage ==
    /\ Listed
    /\ Cardinality(Filtered) = 2
    /\ DistinctTimes(Filtered)
    /\ result.out.page = 2
    /\ result.out.limit = 1
    /\ Len(result.out.orders) = 1
    /\ Rank(result.out.orders[1]) = 2
    /\ result.out.totalPages = 2

NextVendor ==
    \/ OpenStoreCall
    \/ CloseStoreCall
    \/ UpdatePackSettingsCall
    \/ UpdateWorkingHoursCall
    \/ UpdateVendorProfileCall

SpecVendor == Init /\ [][NextVendor]_vars

(***************************************************************************)
(* Claims about VendorService, checked under SpecVendor.                   *)
(***************************************************************************)
OtherVendorsKept(v) ==
    /\ DOMAIN vendors = DOMAIN vcall.before
    /\ \A w \in DOMAIN vendors : w # v => vendors[w] = vcall.before[w]

\* C8: openStore / closeStore on an existing vendor always succeed and leave
\* isStoreOpen true / false whatever it was before (so a repeated call changes
\* nothing and raises nothing), change no other field of that vendor and no other
\* vendor; on an id that does not resolve they fail with NotFound and the vendor
\* collection is unchanged.
C8_StoreToggleIdempotent ==
    vcall.op \in {"openStore", "closeStore"} =>
        LET v == vcall.vendorId
            want == (vcall.op = "openStore")
        IN IF v \in DOMAIN vcall.before
           THEN /\ vret = "ok"
                /\ vendors[v].isStoreOpen = want
                /\ vendors[v] = [vcall.before[v] EXCEPT !.isStoreOpen = want]
                /\ (vcall.before[v].isStoreOpen = want => vendors = vcall.before)
                /\ OtherVendorsKept(v)
           ELSE vret = "NotFound" /\ vendors = vcall.before

\* openStore has run on a vendor whose store was already open
C8_Witness ==
    /\ vcall.op = "openStore"
    /\ vcall.vendorId \in DOMAIN vcall.before
    /\ vcall.before[vcall.vendorId].isStoreOpen
    /\ vret = "ok"
    /\ vendors[vcall.vendorId].isStoreOpen

DayNames(hours) == [i \in 1..Len(hours) |-> hours[i].day]

\* C9: updateWorkingHours with a day that matches no entry case-insensitively
\* fails with InvalidInput (BadRequest) and changes nothing; every call keeps the
\* number of entries and their day names; a successful call changes only an entry
\* whose day matches, and in it only fields present in the request, to the
\* requested values.
C9_WorkingHoursUpdate ==
    (vcall.op = "updateWorkingHours" /\ vcall.vendorId \in DOMAIN vcall.before) =>
        LET v == vcall.vendorId
            u == vcall.hours[1]
            old == vcall.before[v].workingHours
            new == vendors[v].workingHours
            matching == {i \in 1..Len(old) :
                            toLowerCase(old[i].day) = toLowerCase(u.day)}
        IN /\ DayNames(new) = DayNames(old)
           /\ OtherVendorsKept(v)
           /\ vendors[v] = [vcall.before[v] EXCEPT !.workingHours = new]
           /\ IF matching = {}
              THEN vret = "BadRequest" /\ vendors = vcall.before
              ELSE /\ vret = "ok"
                   /\ \A i \in 1..Len(old) :
                        /\ i \notin matching => new[i] = old[i]
                        /\ new[i].openingTime # old[i].openingTime =>
                              u.openingTime = Some(new[i].openingTime)
                        /\ new[i].closingTime # old[i].closingTime =>
                              u.closingTime = Some(new[i].closingTime)
                        /\ new[i].isActive # old[i].isActive =>
                              u.isActive = Some(new[i].isActive)

\* updateWorkingHours has been rejected for a day that no entry carries
C9_WitnessRejected ==
    /\ vcall.op = "updateWorkingHours"
    /\ vcall.vendorId \in DOMAIN vcall.before
    /\ vret = "BadRequest"
    /\ vcall.hours[1].day = <<"F", "r", "i">>
    /\ vcall.hours[1].isActive = Some(FALSE)
    /\ vcall.before # InitVendors

====
